---- MODULE Spec2Model ----
(***************************************************************************)
(* A model of BlackBox (src/main.go): the persistent identity store        *)
(* (Ensure), the relay list parser, the startup sequence of main, and the  *)
(* chat session loop (receiver goroutine and operator-input loop) of one   *)
(* or two nodes that talk over the pubsub substrate.                       *)
(*                                                                         *)
(* Spec is the program; SpecEnsure is Ensure called by two processes on    *)
(* one key path; SpecFrame, SpecRelays, SpecProbe and SpecWait run the     *)
(* framing, parseRelayInfos, addrInfoIsReachable and waitForRelayAndPrint  *)
(* on their own, over all inputs within the bounds.                        *)
(*                                                                         *)
(* Strings are sequences of one-character strings, so that trimming,       *)
(* splitting and framing are computed as the code computes them.           *)
(***************************************************************************)
EXTENDS Integers, Sequences, FiniteSets, TLC

\* ------------------------------------------------------------------ bounds

\* Operator lines typed in one run, by all operators together.
MaxLines == 2
\* Gossip retransmissions (forward / IWANT answer / replay) in one run.
MaxResend == 1
\* Sequential Ensure calls per process in the identity-store specification.
MaxCalls == 2
\* Length of the display names and message bodies put through the framing.
MaxLen == 2
\* Length of the --relays values put through the relay list parser.
MaxCsv == 4
\* Addresses of the target handed to the reachability prober.
MaxAddrs == 2
\* The timeout of the relay wait, in sleep intervals of 750 ms.
MaxTicks == 3

\* ------------------------------------------------------------------ strings

Space == " "

RECURSIVE TrimLeft(_)
TrimLeft(s) == IF s # <<>> /\ Head(s) = Space THEN TrimLeft(Tail(s)) ELSE s

RECURSIVE TrimRight(_)
TrimRight(s) ==
    IF s # <<>> /\ s[Len(s)] = Space THEN TrimRight(SubSeq(s, 1, Len(s) - 1)) ELSE s

\* strings.TrimSpace
TrimSpace(s) == TrimRight(TrimLeft(s))

\* strings.HasPrefix(s, "[")
HasPrefixBracket(s) == s # <<>> /\ Head(s) = "["

\* strings.TrimPrefix(s, "[")
TrimPrefixBracket(s) == IF HasPrefixBracket(s) THEN Tail(s) ELSE s

\* Mutant: the text is split at the last occurrence of "]:".
DelimIndexLast(s) ==
    LET hits == {i \in 1..(Len(s) - 1) : s[i] = "]" /\ s[i + 1] = ":"}
    IN  IF hits = {} THEN 0 ELSE CHOOSE i \in hits : \A j \in hits : i >= j

\* Index of the first occurrence of "]:" in s, 0 when there is none.
DelimIndex(s) ==
    LET hits == {i \in 1..(Len(s) - 1) : s[i] = "]" /\ s[i + 1] = ":"}
    IN  IF hits = {} THEN 0 ELSE CHOOSE i \in hits : \A j \in hits : i <= j

\* strings.SplitN(s, "]:", 2)
SplitN2(s) ==
    LET i == DelimIndex(s)
    IN  IF i = 0 THEN <<s>>
        ELSE <<SubSeq(s, 1, i - 1), SubSeq(s, i + 2, Len(s))>>

\* fmt.Sprintf("[%s]:%s", username, line)
Frame(name, line) == <<"[">> \o name \o <<"]", ":">> \o line

\* ------------------------------------------------------------------ console

\* One printed item: a tag and up to two texts.
Item(tag, a, b) == [tag |-> tag, a |-> a, b |-> b]

Note(tag) == Item(tag, <<>>, <<>>)

\* Mutant: any text that contains "]:" is taken for a frame.
RenderNoBracketCheck(msgText) ==
    LET parts == SplitN2(msgText)
    IN  IF Len(parts) = 2
        THEN Item("msg", TrimPrefixBracket(parts[1]), parts[2])
        ELSE Item("raw", msgText, <<>>)

\* The receiver's rendering of a received text (frame parsing and Printf).
Render(msgText) ==
    LET parts == SplitN2(msgText)
    IN  IF Len(parts) = 2 /\ HasPrefixBracket(parts[1])
        THEN Item("msg", TrimPrefixBracket(parts[1]), parts[2])
        ELSE Item("raw", msgText, <<>>)

\* ------------------------------------------------------------------ keys and files

\* crypto.MarshalPrivateKey: a key type tag followed by the key material.
KeyTypeEd25519 == 1

MarshalPrivateKey(k) == <<KeyTypeEd25519, k>>

NoKey == 0

\* crypto.UnmarshalPrivateKey: NoKey stands for the error result.
UnmarshalPrivateKey(data) ==
    IF Len(data) = 2 /\ data[1] = KeyTypeEd25519 /\ data[2] > 0 THEN data[2] ELSE NoKey

\* Bytes that are no serialized key.
CorruptData == <<0>>

NoFile == [exists |-> FALSE, data |-> <<>>]

FileOf(data) == [exists |-> TRUE, data |-> data]

\* The peer identity the substrate derives from a private key (injective).
IDFromKey(k) == k

\* ------------------------------------------------------------------ state

Nodes == {"A", "B"}

VARIABLES
    \* the operator's inputs of each process (menu choice, prompts, flags)
    inp,
    \* the key file each process uses, and the files of the data directories
    keyPath, files, fsWrites,
    \* Ensure: position in the call, the local variables, the result
    epc, ekey, eres, ecalls, elog,
    \* keys generated so far by each process
    genCount,
    \* main: position, identity, context, exit status, console output
    pc, priv, hID, ctxCancelled, exitCode, out,
    \* relay-assisted connectivity requested from the substrate, and the
    \* substrate call of the startup that failed
    autoRelay, subErr,
    \* h.Connect calls made, and the peers each node is connected to
    connectCalls, conns,
    \* receiver goroutine: position; signal.Notify registered; where main was
    \* when a signal arrived
    rpc, sigNotify, sigSeen,
    \* operator lines read and publish attempts made
    typed, pubLog,
    \* substrate: subscription queue, message cache, retransmissions made
    inbox, held, resent,
    \* the received messages each receiver rendered
    rendered,
    \* one text on its way through wrapping and the receiver's frame parser
    frame,
    \* one call of parseRelayInfos: its argument, its position, its result
    relayCall,
    \* one call of addrInfoIsReachable: the target's addresses, the endpoints
    \* that accept connections, the loop index, the dials made, the result
    probe,
    \* one call of waitForRelayAndPrint: position, clock, deadline, h.Addrs(),
    \* printed, what it printed, and the address lists its polls observed
    relayPoll

ensVars == <<keyPath, files, fsWrites, epc, ekey, eres, ecalls, elog, genCount>>

mainVars == <<inp, pc, priv, hID, ctxCancelled, exitCode, out, autoRelay, subErr,
              connectCalls, conns, rpc, sigNotify, sigSeen, typed, pubLog>>

netVars == <<inbox, held, resent, rendered>>

\* State of the functions exercised on their own.
unitVars == <<frame, relayCall, probe, relayPoll>>

vars == <<ensVars, mainVars, netVars, unitVars>>

\* ------------------------------------------------------------------ Ensure

\* Key material of the i-th key a process generates: generated keys are fresh.
KeyBase(n) == IF n = "A" THEN 10 ELSE 20

\* The key a data directory holds from an earlier run.
PriorKey(path) == IF path = "A" THEN 1 ELSE 2

\* An Ensure result: ok with a key, or an error.
EnsureResult(ok, key, err) == [ok |-> ok, key |-> key, err |-> err]

\* Ensure is entered: os.Stat(path) is the next step.
EnsureEnter(n) ==
    /\ epc' = [epc EXCEPT ![n] = "stat"]
    /\ ekey' = [ekey EXCEPT ![n] = NoKey]
    /\ eres' = [eres EXCEPT ![n] = EnsureResult(FALSE, NoKey, "")]
    /\ ecalls' = [ecalls EXCEPT ![n] =
                    [start |-> Len(elog), existed |-> files[keyPath[n]].exists,
                     wrote |-> FALSE, fault |-> FALSE]]

\* Mutant: the existence check is dropped and a key is generated on every call.
StatSaysMissingAlways(f, statErr) == TRUE

\* os.IsNotExist(err) of os.Stat(path): a Stat failure of another kind is not
\* "missing", and the read branch is taken.
StatSaysMissing(f, statErr) == ~f.exists /\ ~statErr

EnsureStat(n) ==
    /\ epc[n] = "stat"
    /\ \E statErr \in BOOLEAN :
        /\ ecalls' = [ecalls EXCEPT ![n].fault = statErr]
        /\ IF StatSaysMissing(files[keyPath[n]], statErr)
           THEN /\ epc' = [epc EXCEPT ![n] = "write"]
                /\ ekey' = [ekey EXCEPT ![n] = KeyBase(n) + genCount[n] + 1]
                /\ genCount' = [genCount EXCEPT ![n] = @ + 1]
           ELSE /\ epc' = [epc EXCEPT ![n] = "read"]
                /\ UNCHANGED <<ekey, genCount>>
    /\ UNCHANGED <<keyPath, files, fsWrites, eres, elog, mainVars, netVars, unitVars>>

\* The file after os.WriteFile(path, data, 0600): a failed write leaves either
\* no change or a created, truncated file.
WriteFile(f, data, outcome) ==
    CASE outcome = "ok" -> FileOf(data)
      [] outcome = "partial" -> FileOf(<<>>)
      [] OTHER -> f

\* crypto.MarshalPrivateKey and os.WriteFile of the generated key.
EnsureWrite(n) ==
    /\ epc[n] = "write"
    /\ \E outcome \in {"ok", "fail", "partial"} :
        /\ files' = [files EXCEPT ![keyPath[n]] =
                        WriteFile(@, MarshalPrivateKey(ekey[n]), outcome)]
        /\ fsWrites' = [fsWrites EXCEPT ![keyPath[n]] =
                        IF outcome = "fail" THEN @ ELSE @ + 1]
        /\ eres' = [eres EXCEPT ![n] =
                        IF outcome = "ok" THEN EnsureResult(TRUE, ekey[n], "")
                        ELSE EnsureResult(FALSE, NoKey, "io")]
        /\ ecalls' = [ecalls EXCEPT ![n].wrote = (outcome # "fail"),
                                    ![n].fault = (outcome # "ok")]
    /\ epc' = [epc EXCEPT ![n] = "ret"]
    /\ UNCHANGED <<keyPath, ekey, elog, genCount, mainVars, netVars, unitVars>>

\* Mutant: a file that cannot be deserialized is replaced by a fresh key.
ReadBranchRegenerate(f, readErr) ==
    IF readErr \/ ~f.exists THEN EnsureResult(FALSE, NoKey, "io")
    ELSE IF UnmarshalPrivateKey(f.data) = NoKey
         THEN EnsureResult(TRUE, KeyBase("A") + 1, "")
         ELSE EnsureResult(TRUE, UnmarshalPrivateKey(f.data), "")

\* The result of the read branch on file f.
ReadBranch(f, readErr) ==
    IF readErr \/ ~f.exists THEN EnsureResult(FALSE, NoKey, "io")
    ELSE IF UnmarshalPrivateKey(f.data) = NoKey
         THEN EnsureResult(FALSE, NoKey, "corrupt")
         ELSE EnsureResult(TRUE, UnmarshalPrivateKey(f.data), "")

\* ioutil.ReadFile and crypto.UnmarshalPrivateKey of the existing file.
EnsureRead(n) ==
    /\ epc[n] = "read"
    /\ \E readErr \in BOOLEAN :
        /\ eres' = [eres EXCEPT ![n] = ReadBranch(files[keyPath[n]], readErr)]
        /\ ecalls' = [ecalls EXCEPT ![n].fault = @ \/ readErr]
    /\ epc' = [epc EXCEPT ![n] = "ret"]
    /\ UNCHANGED <<keyPath, files, fsWrites, ekey, elog, genCount,
                   mainVars, netVars, unitVars>>

\* ------------------------------------------------------------------ relay list

\* strings.Split(csv, ","): the segments between commas, in order.
RECURSIVE SplitComma(_, _)
SplitComma(s, cur) ==
    IF s = <<>> THEN <<cur>>
    ELSE IF Head(s) = "," THEN <<cur>> \o SplitComma(Tail(s), <<>>)
    ELSE SplitComma(Tail(s), Append(cur, Head(s)))

\* multiaddr.NewMultiaddr(s) succeeds: the entries "g" and "h" stand for two
\* relay multiaddrs with a /p2p component, "m" for a multiaddr without one;
\* any other text is no multiaddr.
NewMultiaddrOK(s) == s \in {<<"g">>, <<"h">>, <<"m">>}

\* peer.AddrInfoFromP2pAddr(maddr) succeeds.
AddrInfoFromP2pAddrOK(s) == s \in {<<"g">>, <<"h">>}

ParseResult(err, entry, infos) == [err |-> err, entry |-> entry, infos |-> infos]

\* Mutant: an unparseable entry is skipped and the other entries are returned.
RECURSIVE ParsePartsSkipBad(_, _)
ParsePartsSkipBad(parts, infos) ==
    IF parts = <<>> THEN ParseResult("", <<>>, infos)
    ELSE LET s == TrimSpace(Head(parts))
         IN  IF s = <<>> \/ ~NewMultiaddrOK(s) \/ ~AddrInfoFromP2pAddrOK(s)
             THEN ParsePartsSkipBad(Tail(parts), infos)
             ELSE ParsePartsSkipBad(Tail(parts), Append(infos, s))

\* The loop of parseRelayInfos over the split parts.
RECURSIVE ParseParts(_, _)
ParseParts(parts, infos) ==
    IF parts = <<>> THEN ParseResult("", <<>>, infos)
    ELSE LET s == TrimSpace(Head(parts))
         IN  IF s = <<>> THEN ParseParts(Tail(parts), infos)
             ELSE IF ~NewMultiaddrOK(s) THEN ParseResult("bad relay multiaddr", s, <<>>)
             ELSE IF ~AddrInfoFromP2pAddrOK(s)
                  THEN ParseResult("cannot parse relay AddrInfo", s, <<>>)
             ELSE ParseParts(Tail(parts), Append(infos, s))

parseRelayInfos(csv) ==
    IF TrimSpace(csv) = <<>> THEN ParseResult("", <<>>, <<>>)
    ELSE ParseParts(SplitComma(csv, <<>>), <<>>)

\* ------------------------------------------------------------------ inputs

\* A connection address typed at the prompt: ma tells whether the text is
\* empty, no multiaddr, or a multiaddr; id is the peer identity of its /p2p
\* component (NoKey when it has none).
Addr(ma, id) == [ma |-> ma, id |-> id]

EmptyAddr == Addr("empty", NoKey)

\* Addresses a lone process is given: empty, malformed, without /p2p, and the
\* identities of its own key file, of a key it may generate, and of a stranger.
SoloAddrs ==
    {EmptyAddr, Addr("bad", NoKey), Addr("ok", NoKey), Addr("ok", IDFromKey(PriorKey("A"))),
     Addr("ok", IDFromKey(KeyBase("A") + 1)), Addr("ok", IDFromKey(PriorKey("B")))}

\* --relays values: absent, blank, one good relay, a list with empty
\* segments, an unparseable entry.
SoloRelays ==
    {<<>>, <<Space>>, <<"g">>, <<"g", ",", ",", Space, "g">>, <<"g", ",", "b">>}

Input(mode, addr, csv, name) == [mode |-> mode, addr |-> addr, csv |-> csv, name |-> name]

\* A process that is never launched.
NoProc == Input("off", EmptyAddr, <<>>, <<>>)

\* ui.MainMenu returns "join" or "host"; the address is prompted for in the
\* join mode only.
InputsWith(addrs, relays, names) ==
    {Input("host", EmptyAddr, csv, name) : csv \in relays, name \in names}
    \cup {Input("join", a, csv, name) : a \in addrs, csv \in relays, name \in names}

\* Lines the operator types: blank, the commands (with and without
\* surrounding blanks), near-commands and chat text.
LineInputs ==
    {<<Space>>, <<"/", "h", "e", "l", "p">>, <<Space, "/", "e", "x", "i", "t", Space>>,
     <<"/", "e", "x", "i", "t">>, <<"h", "i", Space>>, <<"]", ":", "x">>}

\* Lines typed in a run of two processes: chat text and the exit command.
PairLines == {<<"h", "i">>, <<"/", "e", "x", "i", "t">>}

\* ------------------------------------------------------------------ exit and output

NotExited == -1

ExitSuccess == 0

\* log.Fatal and log.Fatalf end the process with os.Exit(1).
ExitFatal == 1

\* An unhandled SIGINT or SIGTERM ends a Go process with a non-zero status.
ExitKilled == 2

\* The run is of one process alone.  Failures of the environment (signals,
\* end of input, a closed subscription, a failing publish) are explored for a
\* lone process; runs of two processes explore the message exchange.
Solo == \E n \in Nodes : inp[n].mode = "off"

Lines == IF Solo THEN LineInputs ELSE PairLines

\* A node whose host exists and listens.
Listening(n) == pc[n] \in {"role", "relaywait", "loop", "exiting", "sigwait"}


\* The process ends: its connections and its pending traffic go with it.
Terminate(n, status) ==
    /\ pc' = [pc EXCEPT ![n] = "exited"]
    /\ exitCode' = [exitCode EXCEPT ![n] = status]
    /\ conns' = [m \in Nodes |-> IF m = n THEN {} ELSE conns[m] \ {n}]

\* log.Fatal(cause): the diagnostic is printed and the process exits.
Fatal(n, cause) ==
    /\ out' = [out EXCEPT ![n] = Append(@, Item("fatal", <<cause>>, <<>>))]
    /\ Terminate(n, ExitFatal)

\* ------------------------------------------------------------------ main: startup

\* main up to the call of Ensure: menu, prompts, flags, key path.
Start(n) ==
    /\ pc[n] = "menu"
    /\ IF inp[n].mode \in {"host", "join"}
       THEN /\ pc' = [pc EXCEPT ![n] = "identity"]
            /\ EnsureEnter(n)
            /\ UNCHANGED <<out, exitCode, conns>>
       ELSE /\ out' = [out EXCEPT ![n] = Append(@, Note("invalid selection"))]
            /\ Terminate(n, ExitSuccess)
            /\ UNCHANGED <<epc, ekey, eres, ecalls>>
    /\ UNCHANGED <<inp, keyPath, files, fsWrites, elog, genCount, priv, hID,
                   ctxCancelled, autoRelay, subErr, connectCalls, rpc, sigNotify, sigSeen, typed,
                   pubLog, netVars, unitVars>>

\* The relay option setup: "" when the option list is built, else the cause
\* of the fatal error.
RelaySetupError(csv) ==
    IF csv # <<>> /\ parseRelayInfos(csv).err # "" THEN parseRelayInfos(csv).err ELSE ""

\* AutoRelay and hole punching are requested from the substrate.
RelayEnabled(csv) ==
    csv # <<>> /\ parseRelayInfos(csv).err = "" /\ Len(parseRelayInfos(csv).infos) > 0

\* Mutant: the errors of the substrate calls are not checked.
StartupErrorUnchecked(res, csv, subFail) ==
    IF ~res.ok THEN "identity"
    ELSE IF RelaySetupError(csv) # "" THEN "parse --relays"
    ELSE ""

\* What the relay option setup prints.
RelayNotice(csv) ==
    IF csv = <<>> THEN Note("no relays provided")
    ELSE IF RelayEnabled(csv) THEN Note("using static relays")
    ELSE Note("relays provided but none parsed")

\* The first failure of the startup sequence after Ensure has returned, ""
\* when there is none: identity, relay list, then the substrate call that
\* fails (subFail).
StartupError(res, csv, subFail) ==
    IF ~res.ok THEN "identity"
    ELSE IF RelaySetupError(csv) # "" THEN "parse --relays"
    ELSE subFail

SubstrateCalls == {"libp2p.New", "NewGossipSub", "Join", "Subscribe"}

\* main from the return of Ensure to the role branch: identity check, context,
\* relay options, node construction, pubsub, topic join and subscribe.
Bootstrap(n) ==
    /\ pc[n] = "identity"
    /\ epc[n] = "ret"
    /\ epc' = [epc EXCEPT ![n] = "idle"]
    /\ \E subFail \in SubstrateCalls \cup {""} :
        LET err == StartupError(eres[n], inp[n].csv, subFail)
        IN  /\ (~eres[n].ok \/ RelaySetupError(inp[n].csv) # "") => subFail = ""
            /\ subErr' = [subErr EXCEPT ![n] = subFail]
            /\ IF err # ""
               THEN /\ Fatal(n, err)
                    /\ UNCHANGED <<priv, hID, autoRelay>>
               ELSE /\ priv' = [priv EXCEPT ![n] = eres[n].key]
                    /\ hID' = [hID EXCEPT ![n] = IDFromKey(eres[n].key)]
                    /\ autoRelay' = [autoRelay EXCEPT ![n] = RelayEnabled(inp[n].csv)]
                    /\ pc' = [pc EXCEPT ![n] = "role"]
                    /\ out' = [out EXCEPT ![n] =
                                Append(Append(@, RelayNotice(inp[n].csv)),
                                       Item("known as", inp[n].name, <<>>))]
                    /\ UNCHANGED <<exitCode, conns>>
    /\ UNCHANGED <<inp, keyPath, files, fsWrites, ekey, eres, ecalls, elog, genCount,
                   ctxCancelled, connectCalls, rpc, sigNotify, sigSeen, typed, pubLog, netVars, unitVars>>

\* The receiver goroutine is started and the input loop is entered.
StartLoop(n) ==
    /\ rpc' = [rpc EXCEPT ![n] = "wait"]
    /\ pc' = [pc EXCEPT ![n] = "loop"]

\* The host waits for a relay address.
HostWaits(csv) == csv # <<>>

\* The host branch: own addresses, then the relay wait or the tip.
RoleHost(n) ==
    /\ pc[n] = "role"
    /\ inp[n].mode = "host"
    /\ IF HostWaits(inp[n].csv)
       THEN /\ pc' = [pc EXCEPT ![n] = "relaywait"]
            /\ out' = [out EXCEPT ![n] = Append(@, Note("host info"))]
            /\ UNCHANGED rpc
       ELSE /\ StartLoop(n)
            /\ out' = [out EXCEPT ![n] = Append(Append(@, Note("host info")), Note("tip"))]
    /\ UNCHANGED <<ensVars, inp, priv, hID, ctxCancelled, exitCode, autoRelay, subErr,
                   connectCalls, conns, sigNotify, sigSeen, typed, pubLog, netVars, unitVars>>

\* waitForRelayAndPrint returns: it printed a relay address or the fallback.
RelayWait(n) ==
    /\ pc[n] = "relaywait"
    /\ \E found \in BOOLEAN :
        out' = [out EXCEPT ![n] = Append(@, Note(IF found THEN "relay" ELSE "no relay"))]
    /\ StartLoop(n)
    /\ UNCHANGED <<ensVars, inp, priv, hID, ctxCancelled, exitCode, autoRelay, subErr,
                   connectCalls, conns, sigNotify, sigSeen, typed, pubLog, netVars, unitVars>>

\* The (host, port) endpoints of the addresses of a target.
HostPorts == {1, 2}

\* ip and port are both "".
NoHostPort == 0

\* An address of info.Addrs: its leading protocol and its endpoint.
Ma(shape, hp) == [shape |-> shape, hp |-> hp]

Shapes == {"ip4", "dns", "ip6"}

\* Mutant: the scan understands the scanset verb as C's sscanf does: on a
\* text of the format's shape it stores host and port, on any other text it
\* stores nothing.
SscanfScanset(shape, a, cur) == IF a.shape = shape THEN a.hp ELSE cur

\* fmt.Sscanf(s, "/<shape>/%[^/]/tcp/%[^/]/p2p/%*s", &ip, &port): the values
\* of ip and port after the call, cur being their values before it.  The scan
\* of package fmt has no scanset verb: on a text that starts with the
\* format's literal it stops at the first verb with the error "bad verb '%['
\* for string", on any other text with "input does not match format", and in
\* both cases it stores nothing.
Sscanf(shape, a, cur) == cur

\* net.DialTimeout("tcp", addr, timeout) returns no error.
DialOK(hp, up) == hp \in up

\* One iteration of the loop over info.Addrs: the endpoints dialed, in order,
\* and whether the function returns true.  ip and port are declared in the
\* loop body and shared by the two scans.
ProbeAddr(a, up) ==
    LET s1 == Sscanf("ip4", a, NoHostPort)
        d1 == IF s1 # NoHostPort THEN <<s1>> ELSE <<>>
        s2 == Sscanf("dns", a, s1)
        d2 == IF s2 # NoHostPort THEN <<s2>> ELSE <<>>
    IN  IF s1 # NoHostPort /\ DialOK(s1, up) THEN [dials |-> d1, hit |-> TRUE]
        ELSE [dials |-> d1 \o d2, hit |-> s2 # NoHostPort /\ DialOK(s2, up)]

\* addrInfoIsReachable(info, timeout) from call to return.
RECURSIVE addrInfoIsReachable(_, _)
addrInfoIsReachable(addrs, up) ==
    IF addrs = <<>> THEN FALSE
    ELSE IF ProbeAddr(Head(addrs), up).hit THEN TRUE
    ELSE addrInfoIsReachable(Tail(addrs), up)

\* What the probe of a joiner's one-address target can return, over the
\* shapes of the address and the states of its endpoint.
JoinProbeResults ==
    {addrInfoIsReachable(<<Ma(sh, 1)>>, u) : sh \in Shapes, u \in SUBSET HostPorts}

\* The condition of the joiner branch.
JoinBranchTaken(mode, addr) == mode # "host" /\ addr.ma # "empty"

\* Mutant: the self-connect guard is missing.
IsOwnAddressNever(addr, self) == FALSE

\* The address designates this node.
IsOwnAddress(addr, self) == addr.id = self

\* What the joiner branch does with the address before the probe: "invalid"
\* (no multiaddr), "noinfo" (no peer identity in it), "self", or "connect".
JoinDecision(addr, self) ==
    IF addr.ma # "ok" THEN "invalid"
    ELSE IF addr.id = NoKey THEN "noinfo"
    ELSE IF IsOwnAddress(addr, self) THEN "self"
    ELSE "connect"

\* A listening node with this identity, other than n.
Targets(n, id) == {m \in Nodes \ {n} : Listening(m) /\ hID[m] = id}

\* The joiner branch: validation, self-connect guard, probe, connect, banner.
RoleJoin(n) ==
    /\ pc[n] = "role"
    /\ JoinBranchTaken(inp[n].mode, inp[n].addr)
    /\ LET d == JoinDecision(inp[n].addr, hID[n])
           attempt == Append(out[n], Note("attempting to join"))
       IN  CASE d = "invalid" ->
                 /\ out' = [out EXCEPT ![n] = Append(attempt, Item("fatal", <<"invalid multiaddr">>, <<>>))]
                 /\ Terminate(n, ExitFatal)
                 /\ UNCHANGED <<connectCalls, rpc, ctxCancelled>>
             [] d = "noinfo" ->
                 /\ out' = [out EXCEPT ![n] = Append(attempt, Item("fatal", <<"failed to parse peer AddrInfo">>, <<>>))]
                 /\ Terminate(n, ExitFatal)
                 /\ UNCHANGED <<connectCalls, rpc, ctxCancelled>>
             [] d = "self" ->
                 /\ out' = [out EXCEPT ![n] = Append(attempt, Note("already hosting"))]
                 /\ Terminate(n, ExitSuccess)
                 /\ ctxCancelled' = [ctxCancelled EXCEPT ![n] = TRUE]
                 /\ UNCHANGED <<connectCalls, rpc>>
             [] OTHER ->
                 \E reachable \in JoinProbeResults, m \in Targets(n, inp[n].addr.id) \cup {n} :
                    LET probed == IF reachable THEN attempt
                                  ELSE Append(attempt, Note("may be behind firewall"))
                    IN  /\ connectCalls' = [connectCalls EXCEPT ![n] = @ + 1]
                        /\ UNCHANGED ctxCancelled
                        /\ IF m = n
                           THEN /\ out' = [out EXCEPT ![n] = Append(probed, Item("fatal", <<"connect failed">>, <<>>))]
                                /\ Terminate(n, ExitFatal)
                                /\ UNCHANGED rpc
                           ELSE /\ out' = [out EXCEPT ![n] = Append(probed, Note("connected"))]
                                /\ conns' = [conns EXCEPT ![n] = @ \cup {m}, ![m] = @ \cup {n}]
                                /\ StartLoop(n)
                                /\ UNCHANGED exitCode
    /\ UNCHANGED <<ensVars, inp, priv, hID, autoRelay, subErr, sigNotify, sigSeen, typed, pubLog, netVars, unitVars>>

\* Neither branch is taken: main goes on to the message loop.
RoleNone(n) ==
    /\ pc[n] = "role"
    /\ inp[n].mode # "host"
    /\ ~JoinBranchTaken(inp[n].mode, inp[n].addr)
    /\ StartLoop(n)
    /\ UNCHANGED <<ensVars, inp, priv, hID, ctxCancelled, exitCode, out, autoRelay, subErr,
                   connectCalls, conns, sigNotify, sigSeen, typed, pubLog, netVars, unitVars>>

\* ------------------------------------------------------------------ substrate

\* A published message: origin identity, sequence number of the origin, data.
Msg(from, seq, data) == [from |-> from, seq |-> seq, data |-> data]

\* A message as the subscription hands it over: via is msg.ReceivedFrom, the
\* peer the message arrived from (the node itself for its own publishes).
Received(m, via) == [from |-> m.from, via |-> via, data |-> m.data]

\* A peer sends a message it holds to a connected peer once more (gossip
\* forwarding, the answer to an IWANT, a replay) and the substrate of that
\* peer accepts it: its seen-cache, a time cache, holds the message no longer.
\* The subscription queue stands for the network as well.
Resend(p) ==
    /\ Listening(p)
    /\ resent < MaxResend
    /\ \E q \in conns[p], m \in held[p] :
        /\ inbox' = [inbox EXCEPT ![q] = Append(@, Received(m, hID[p]))]
        /\ held' = [held EXCEPT ![q] = @ \cup {m}]
    /\ resent' = resent + 1
    /\ UNCHANGED <<ensVars, mainVars, rendered, unitVars>>

\* ------------------------------------------------------------------ receiver goroutine

\* The receiver's self-echo test on a received message.
IsSelfEcho(r, self) == r.via = self

\* sub.Next returns a message: it is skipped as a self-echo or rendered.
Recv(n) ==
    /\ rpc[n] = "wait"
    /\ pc[n] # "exited"
    /\ inbox[n] # <<>>
    /\ inbox' = [inbox EXCEPT ![n] = Tail(@)]
    /\ IF IsSelfEcho(Head(inbox[n]), hID[n])
       THEN UNCHANGED <<out, rendered>>
       ELSE /\ out' = [out EXCEPT ![n] = Append(@, Render(Head(inbox[n]).data))]
            /\ rendered' = [rendered EXCEPT ![n] = @ \cup {Head(inbox[n])}]
    /\ UNCHANGED <<ensVars, inp, pc, priv, hID, ctxCancelled, exitCode, autoRelay, subErr,
                   connectCalls, conns, rpc, sigNotify, sigSeen, typed, pubLog,
                   held, resent, unitVars>>

\* sub.Next returns an error because the context is cancelled: the goroutine
\* returns.
RecvCancelled(n) ==
    /\ rpc[n] = "wait"
    /\ pc[n] # "exited"
    /\ ctxCancelled[n]
    /\ rpc' = [rpc EXCEPT ![n] = "done"]
    /\ UNCHANGED <<ensVars, inp, pc, priv, hID, ctxCancelled, exitCode, out, autoRelay, subErr,
                   connectCalls, conns, sigNotify, sigSeen, typed, pubLog, netVars, unitVars>>

\* sub.Next returns an error because the substrate closed the subscription:
\* the goroutine returns.
RecvClosed(n) ==
    /\ Solo
    /\ rpc[n] = "wait"
    /\ pc[n] # "exited"
    /\ ~ctxCancelled[n]
    /\ rpc' = [rpc EXCEPT ![n] = "closed"]
    /\ UNCHANGED <<ensVars, inp, pc, priv, hID, ctxCancelled, exitCode, out, autoRelay, subErr,
                   connectCalls, conns, sigNotify, sigSeen, typed, pubLog, netVars, unitVars>>

\* ------------------------------------------------------------------ input loop

\* Lines typed so far in the run.
RECURSIVE SumLen(_, _)
SumLen(f, S) ==
    IF S = {} THEN 0
    ELSE LET x == CHOOSE x \in S : TRUE IN Len(f[x]) + SumLen(f, S \ {x})

TypedTotal == SumLen(typed, Nodes)

\* Mutant: the exit command is not recognized.
ClassifyNoExit(line) ==
    IF line = <<>> THEN "blank"
    ELSE IF line = <<"/", "h", "e", "l", "p">> THEN "help"
    ELSE "chat"

\* What the loop does with a trimmed line.
Classify(line) ==
    IF line = <<>> THEN "blank"
    ELSE IF line = <<"/", "h", "e", "l", "p">> THEN "help"
    ELSE IF line = <<"/", "e", "x", "i", "t">> THEN "exit"
    ELSE "chat"

\* One publish attempt: the data and whether t.Publish returned no error.
Attempt(data, ok) == [data |-> data, ok |-> ok]

\* Mutant: a failed publish is retried once.
PublishesForRetry(name, line, ok) ==
    IF Classify(line) # "chat" THEN <<>>
    ELSE IF ok THEN <<Attempt(Frame(name, line), ok)>>
    ELSE <<Attempt(Frame(name, line), ok), Attempt(Frame(name, line), ok)>>

\* The publish attempts the loop makes for one trimmed line.
PublishesFor(name, line, ok) ==
    IF Classify(line) = "chat" THEN <<Attempt(Frame(name, line), ok)>> ELSE <<>>

\* Mutant: a publish error breaks out of the input loop.
AfterPublishBreak(ok) == IF ok THEN "loop" ELSE "sigwait"

\* The position of main after a publish attempt: the loop goes on whether
\* or not t.Publish returned an error.
AfterPublish(ok) == "loop"

\* Mutant: a published message reaches the node's own subscription only.
PublishedLocalOnly(n, m) ==
    /\ held' = [held EXCEPT ![n] = @ \cup {m}]
    /\ inbox' = [inbox EXCEPT ![n] = Append(@, Received(m, hID[n]))]

\* t.Publish succeeded: the message reaches the node's own subscription and
\* is sent to the connected peers.
Published(n, m) ==
    /\ held' = [q \in Nodes |-> IF q = n \/ q \in conns[n] THEN held[q] \cup {m}
                                ELSE held[q]]
    /\ inbox' = [q \in Nodes |->
                    IF q = n \/ q \in conns[n] THEN Append(inbox[q], Received(m, hID[n]))
                    ELSE inbox[q]]

\* scanner.Scan returns a line: one pass of the input loop, up to the call of
\* os.Exit for the exit command.
ReadLine(n) ==
    /\ pc[n] = "loop"
    /\ TypedTotal < MaxLines
    /\ \E raw \in Lines, ok \in IF Solo THEN BOOLEAN ELSE {TRUE} :
        LET line == TrimSpace(raw)
            kind == Classify(line)
            pubs == PublishesFor(inp[n].name, line, ok)
        IN  /\ typed' = [typed EXCEPT ![n] = Append(@, raw)]
            /\ pubLog' = [pubLog EXCEPT ![n] = @ \o pubs]
            /\ kind # "chat" => ok
            /\ CASE kind = "blank" ->
                      UNCHANGED <<pc, out, ctxCancelled, inbox, held>>
                 [] kind = "help" ->
                      /\ out' = [out EXCEPT ![n] = Append(@, Note("help"))]
                      /\ UNCHANGED <<pc, ctxCancelled, inbox, held>>
                 [] kind = "exit" ->
                      /\ out' = [out EXCEPT ![n] = Append(@, Note("disconnecting"))]
                      /\ ctxCancelled' = [ctxCancelled EXCEPT ![n] = TRUE]
                      /\ pc' = [pc EXCEPT ![n] = "exiting"]
                      /\ UNCHANGED <<inbox, held>>
                 [] OTHER ->
                      /\ pc' = [pc EXCEPT ![n] = AfterPublish(ok)]
                      /\ UNCHANGED ctxCancelled
                      /\ IF ok
                         THEN /\ Published(n, Msg(hID[n], Len(pubLog[n]) + 1, Frame(inp[n].name, line)))
                              /\ out' = [out EXCEPT ![n] = Append(@, Item("echo", inp[n].name, line))]
                         ELSE /\ out' = [out EXCEPT ![n] =
                                    Append(Append(@, Note("publish error")),
                                           Item("echo", inp[n].name, line))]
                              /\ UNCHANGED <<inbox, held>>
    /\ UNCHANGED <<ensVars, inp, priv, hID, exitCode, autoRelay, subErr, connectCalls, conns,
                   rpc, sigNotify, sigSeen, resent, rendered, unitVars>>

\* os.Exit(0) of the exit command, after cancel() has returned.
OsExit(n) ==
    /\ pc[n] = "exiting"
    /\ Terminate(n, ExitSuccess)
    /\ UNCHANGED <<ensVars, inp, priv, hID, ctxCancelled, out, autoRelay, subErr, connectCalls,
                   rpc, sigNotify, sigSeen, typed, pubLog, netVars, unitVars>>

\* scanner.Scan returns false (standard input ended): main registers for
\* SIGINT and SIGTERM and waits.
StdinEOF(n) ==
    /\ Solo
    /\ pc[n] = "loop"
    /\ pc' = [pc EXCEPT ![n] = "sigwait"]
    /\ sigNotify' = [sigNotify EXCEPT ![n] = TRUE]
    /\ UNCHANGED <<ensVars, inp, priv, hID, ctxCancelled, exitCode, out, autoRelay, subErr,
                   connectCalls, conns, rpc, sigSeen, typed, pubLog, netVars, unitVars>>

\* The exit status of a process that gets SIGINT or SIGTERM.
SignalStatus(notified) == IF notified THEN ExitSuccess ELSE ExitKilled

\* SIGINT or SIGTERM arrives once the message loop has started.  With signal.Notify registered main prints the
\* notice and returns (the deferred cancel runs); otherwise the runtime ends
\* the process at once.
Signal(n) ==
    /\ Solo
    /\ pc[n] \in {"loop", "exiting", "sigwait"}
    /\ sigSeen' = [sigSeen EXCEPT ![n] = pc[n]]
    /\ Terminate(n, SignalStatus(sigNotify[n]))
    /\ IF sigNotify[n]
       THEN /\ out' = [out EXCEPT ![n] = Append(@, Note("shutting down cleanly"))]
            /\ ctxCancelled' = [ctxCancelled EXCEPT ![n] = TRUE]
       ELSE UNCHANGED <<out, ctxCancelled>>
    /\ UNCHANGED <<ensVars, inp, priv, hID, autoRelay, subErr, connectCalls, rpc, sigNotify,
                   typed, pubLog, netVars, unitVars>>

\* ------------------------------------------------------------------ specification

Launched(n) == inp[n].mode # "off"

KeyFiles == {NoFile, FileOf(CorruptData)}

\* A lone process with every kind of input.
SoloInit ==
    /\ inp \in {[n \in Nodes |-> IF n = "A" THEN i ELSE NoProc] :
                    i \in InputsWith(SoloAddrs, SoloRelays, {<<"A">>})}
    /\ files \in {[p \in Nodes |-> IF p = "A" THEN f ELSE NoFile] :
                    f \in KeyFiles \cup {FileOf(MarshalPrivateKey(PriorKey("A")))}}

\* A hosts without relays and B joins with the address A printed in an
\* earlier run; both have their key files.
PairInit ==
    /\ inp = [n \in Nodes |->
                IF n = "A" THEN Input("host", EmptyAddr, <<>>, <<"A">>)
                ELSE Input("join", Addr("ok", IDFromKey(PriorKey("A"))), <<>>, <<"B">>)]
    /\ files = [p \in Nodes |-> FileOf(MarshalPrivateKey(PriorKey(p)))]

InitRest ==
    /\ fsWrites = [p \in Nodes |-> 0]
    /\ epc = [n \in Nodes |-> "idle"]
    /\ ekey = [n \in Nodes |-> NoKey]
    /\ eres = [n \in Nodes |-> EnsureResult(FALSE, NoKey, "")]
    /\ ecalls = [n \in Nodes |-> [start |-> 0, existed |-> FALSE, wrote |-> FALSE,
                                  fault |-> FALSE]]
    /\ elog = <<>>
    /\ genCount = [n \in Nodes |-> 0]
    /\ pc = [n \in Nodes |-> IF Launched(n) THEN "menu" ELSE "off"]
    /\ priv = [n \in Nodes |-> NoKey]
    /\ hID = [n \in Nodes |-> NoKey]
    /\ ctxCancelled = [n \in Nodes |-> FALSE]
    /\ exitCode = [n \in Nodes |-> NotExited]
    /\ out = [n \in Nodes |-> <<>>]
    /\ autoRelay = [n \in Nodes |-> FALSE]
    /\ subErr = [n \in Nodes |-> ""]
    /\ connectCalls = [n \in Nodes |-> 0]
    /\ conns = [n \in Nodes |-> {}]
    /\ rpc = [n \in Nodes |-> "off"]
    /\ sigNotify = [n \in Nodes |-> FALSE]
    /\ sigSeen = [n \in Nodes |-> ""]
    /\ typed = [n \in Nodes |-> <<>>]
    /\ pubLog = [n \in Nodes |-> <<>>]
    /\ inbox = [n \in Nodes |-> <<>>]
    /\ held = [n \in Nodes |-> {}]
    /\ resent = 0
    /\ rendered = [n \in Nodes |-> {}]

\* No text is put through the framing on its own.
NoFrame == [kind |-> "none", name |-> <<>>, body |-> <<>>, text |-> <<>>, sent |-> FALSE]

\* parseRelayInfos is not called on its own.
NoRelayCall == [pc |-> "idle", csv |-> <<>>, res |-> ParseResult("", <<>>, <<>>)]

\* addrInfoIsReachable is not called on its own.
NoProbe == [pc |-> "idle", addrs |-> <<>>, up |-> {}, i |-> 1, dials |-> <<>>,
            result |-> FALSE]

\* waitForRelayAndPrint is not called on its own.
NoRelayPoll == [pc |-> "idle", now |-> 0, deadline |-> 0, addrs |-> <<>>,
                printed |-> FALSE, out |-> <<>>, polled |-> <<>>]

UnitIdle ==
    /\ frame = NoFrame
    /\ relayCall = NoRelayCall
    /\ probe = NoProbe
    /\ relayPoll = NoRelayPoll

Init ==
    /\ SoloInit \/ PairInit
    /\ keyPath = [n \in Nodes |-> n]
    /\ InitRest
    /\ UnitIdle

Next ==
    \E n \in Nodes :
        \/ Start(n)
        \/ EnsureStat(n)
        \/ EnsureWrite(n)
        \/ EnsureRead(n)
        \/ Bootstrap(n)
        \/ RoleHost(n)
        \/ RelayWait(n)
        \/ RoleJoin(n)
        \/ RoleNone(n)
        \/ Recv(n)
        \/ RecvCancelled(n)
        \/ RecvClosed(n)
        \/ ReadLine(n)
        \/ OsExit(n)
        \/ StdinEOF(n)
        \/ Signal(n)
        \/ Resend(n)

Spec == Init /\ [][Next]_vars

\* ------------------------------------------------------------------ identity store alone

\* Completed Ensure calls of process n.
CallsBy(n) == Cardinality({i \in 1..Len(elog) : elog[i].proc = n})

\* A process calls Ensure(keyPath).
EnsureCall(n) ==
    /\ pc[n] = "off"
    /\ epc[n] = "idle"
    /\ CallsBy(n) < MaxCalls
    /\ EnsureEnter(n)
    /\ UNCHANGED <<keyPath, files, fsWrites, elog, genCount, mainVars, netVars, unitVars>>

\* Ensure returns to its caller; the call is recorded.
EnsureReturn(n) ==
    /\ pc[n] = "off"
    /\ epc[n] = "ret"
    /\ epc' = [epc EXCEPT ![n] = "idle"]
    /\ elog' = Append(elog, [proc |-> n, res |-> eres[n], start |-> ecalls[n].start,
                             existed |-> ecalls[n].existed, wrote |-> ecalls[n].wrote,
                             fault |-> ecalls[n].fault])
    /\ UNCHANGED <<keyPath, files, fsWrites, ekey, eres, ecalls, genCount, mainVars, netVars, unitVars>>

\* Two processes started with the same port and home directory: one key path.
InitEnsure ==
    /\ inp = [n \in Nodes |-> NoProc]
    /\ files \in {[p \in Nodes |-> IF p = "A" THEN f ELSE NoFile] :
                    f \in KeyFiles \cup {FileOf(MarshalPrivateKey(PriorKey("A")))}}
    /\ keyPath = [n \in Nodes |-> "A"]
    /\ InitRest
    /\ UnitIdle

NextEnsure ==
    \E n \in Nodes :
        \/ EnsureCall(n)
        \/ EnsureStat(n)
        \/ EnsureWrite(n)
        \/ EnsureRead(n)
        \/ EnsureReturn(n)

SpecEnsure == InitEnsure /\ [][NextEnsure]_vars

\* ------------------------------------------------------------------ framing alone

\* Characters of names, bodies and received texts: the characters the frame
\* parser looks at, and one other.
FrameChars == {"[", "]", ":", "x"}

\* The strings over S of length at most k.
SeqsUpTo(S, k) == UNION {[1..i -> S] : i \in 0..k}

\* A peer's (name, body) pair to be wrapped, or a raw text some publisher on
\* the topic sent (any software may publish on the topic).
FrameInputs ==
    {[kind |-> "pair", name |-> nm, body |-> b, text |-> <<>>, sent |-> FALSE] :
        nm \in SeqsUpTo(FrameChars, MaxLen), b \in SeqsUpTo(FrameChars, MaxLen)}
    \cup {[kind |-> "raw", name |-> <<>>, body |-> <<>>, text |-> t, sent |-> FALSE] :
        t \in SeqsUpTo(FrameChars, MaxLen + 2)}

\* The identity of the remote publisher.
RemoteID == IDFromKey(PriorKey("B"))

\* The remote peer wraps its pair (fmt.Sprintf of the input loop) or sends
\* its raw text; the message reaches the subscription of n.
FrameSend(n) ==
    /\ rpc[n] = "wait"
    /\ frame.kind # "none"
    /\ ~frame.sent
    /\ LET text == IF frame.kind = "pair" THEN Frame(frame.name, frame.body)
                   ELSE frame.text
       IN  /\ frame' = [frame EXCEPT !.text = text, !.sent = TRUE]
           /\ inbox' = [inbox EXCEPT ![n] =
                           Append(@, Received(Msg(RemoteID, 1, text), RemoteID))]
    /\ UNCHANGED <<ensVars, mainVars, held, resent, rendered, relayCall, probe, relayPoll>>

\* What a host has printed when it enters the message loop without a relay
\* wait.
HostBanner(csv, name) ==
    <<RelayNotice(csv), Item("known as", name, <<>>), Note("host info"), Note("tip")>>

\* Process A is in its message loop with its receiver waiting; a remote
\* publisher holds one input.
InitFrame ==
    /\ inp = [n \in Nodes |-> IF n = "A" THEN Input("host", EmptyAddr, <<>>, <<"A">>)
                              ELSE NoProc]
    /\ files = [p \in Nodes |-> IF p = "A" THEN FileOf(MarshalPrivateKey(PriorKey("A")))
                               ELSE NoFile]
    /\ keyPath = [n \in Nodes |-> n]
    /\ fsWrites = [p \in Nodes |-> 0]
    /\ epc = [n \in Nodes |-> "idle"]
    /\ ekey = [n \in Nodes |-> NoKey]
    /\ eres = [n \in Nodes |-> IF n = "A" THEN EnsureResult(TRUE, PriorKey("A"), "")
                               ELSE EnsureResult(FALSE, NoKey, "")]
    /\ ecalls = [n \in Nodes |-> [start |-> 0, existed |-> (n = "A"), wrote |-> FALSE,
                                  fault |-> FALSE]]
    /\ elog = <<>>
    /\ genCount = [n \in Nodes |-> 0]
    /\ pc = [n \in Nodes |-> IF n = "A" THEN "loop" ELSE "off"]
    /\ priv = [n \in Nodes |-> IF n = "A" THEN PriorKey("A") ELSE NoKey]
    /\ hID = [n \in Nodes |-> IF n = "A" THEN IDFromKey(PriorKey("A")) ELSE NoKey]
    /\ ctxCancelled = [n \in Nodes |-> FALSE]
    /\ exitCode = [n \in Nodes |-> NotExited]
    /\ out = [n \in Nodes |-> IF n = "A" THEN HostBanner(<<>>, <<"A">>) ELSE <<>>]
    /\ autoRelay = [n \in Nodes |-> FALSE]
    /\ subErr = [n \in Nodes |-> ""]
    /\ connectCalls = [n \in Nodes |-> 0]
    /\ conns = [n \in Nodes |-> {}]
    /\ rpc = [n \in Nodes |-> IF n = "A" THEN "wait" ELSE "off"]
    /\ sigNotify = [n \in Nodes |-> FALSE]
    /\ sigSeen = [n \in Nodes |-> ""]
    /\ typed = [n \in Nodes |-> <<>>]
    /\ pubLog = [n \in Nodes |-> <<>>]
    /\ inbox = [n \in Nodes |-> <<>>]
    /\ held = [n \in Nodes |-> {}]
    /\ resent = 0
    /\ rendered = [n \in Nodes |-> {}]
    /\ frame \in FrameInputs
    /\ relayCall = NoRelayCall
    /\ probe = NoProbe
    /\ relayPoll = NoRelayPoll

NextFrame ==
    \E n \in Nodes :
        \/ FrameSend(n)
        \/ Recv(n)

SpecFrame == InitFrame /\ [][NextFrame]_vars

\* ------------------------------------------------------------------ relay list parser alone

\* Characters of --relays values: blank, comma, the entries "g", "h" and "m",
\* and a character of entries that are no multiaddr.
RelayChars == {Space, ",", "g", "h", "m", "b"}

\* parseRelayInfos(csv) runs from its call to its return.
ParseRelays ==
    /\ relayCall.pc = "call"
    /\ relayCall' = [relayCall EXCEPT !.pc = "ret", !.res = parseRelayInfos(relayCall.csv)]
    /\ UNCHANGED <<ensVars, mainVars, netVars, frame, probe, relayPoll>>

\* No process runs; parseRelayInfos is called with a --relays value.
InitRelays ==
    /\ inp = [n \in Nodes |-> NoProc]
    /\ files = [p \in Nodes |-> NoFile]
    /\ keyPath = [n \in Nodes |-> n]
    /\ InitRest
    /\ frame = NoFrame
    /\ probe = NoProbe
    /\ relayPoll = NoRelayPoll
    /\ relayCall \in {[pc |-> "call", csv |-> c, res |-> ParseResult("", <<>>, <<>>)] :
                        c \in SeqsUpTo(RelayChars, MaxCsv)}

NextRelays == ParseRelays

SpecRelays == InitRelays /\ [][NextRelays]_vars

\* ------------------------------------------------------------------ reachability prober alone

\* The loop body runs for the next address of the target.
ProbeStep ==
    /\ probe.pc = "loop"
    /\ probe.i <= Len(probe.addrs)
    /\ LET r == ProbeAddr(probe.addrs[probe.i], probe.up)
           made == [k \in 1..Len(r.dials) |-> [addr |-> probe.i, hp |-> r.dials[k]]]
       IN  probe' = [probe EXCEPT !.dials = @ \o made,
                                  !.i = IF r.hit THEN @ ELSE @ + 1,
                                  !.pc = IF r.hit THEN "done" ELSE "loop",
                                  !.result = r.hit]
    /\ UNCHANGED <<ensVars, mainVars, netVars, frame, relayCall, relayPoll>>

\* The loop has ended: return false.
ProbeReturn ==
    /\ probe.pc = "loop"
    /\ probe.i > Len(probe.addrs)
    /\ probe' = [probe EXCEPT !.pc = "done", !.result = FALSE]
    /\ UNCHANGED <<ensVars, mainVars, netVars, frame, relayCall, relayPoll>>

\* No process runs; addrInfoIsReachable is called with a target and some of
\* the endpoints accept connections.
InitProbe ==
    /\ inp = [n \in Nodes |-> NoProc]
    /\ files = [p \in Nodes |-> NoFile]
    /\ keyPath = [n \in Nodes |-> n]
    /\ InitRest
    /\ frame = NoFrame
    /\ relayCall = NoRelayCall
    /\ relayPoll = NoRelayPoll
    /\ probe \in {[pc |-> "loop", addrs |-> as, up |-> u, i |-> 1, dials |-> <<>>,
                    result |-> FALSE] :
                    as \in SeqsUpTo({Ma(sh, hp) : sh \in Shapes, hp \in HostPorts}, MaxAddrs),
                    u \in SUBSET HostPorts}

NextProbe == ProbeStep \/ ProbeReturn

SpecProbe == InitProbe /\ [][NextProbe]_vars

\* ------------------------------------------------------------------ relay wait alone

\* strings.Contains(a.String(), "/p2p-circuit"): "r1" and "r2" stand for
\* relay-derived addresses, "d" for a direct one.
IsCircuit(a) == a \in {"r1", "r2"}

\* Values of h.Addrs().
AddrLists == {<<>>, <<"d">>, <<"r1">>, <<"d", "r1">>, <<"r2", "r1">>}

\* The inner loop over h.Addrs(): the first relay-derived address, "" when
\* there is none.
RECURSIVE FirstCircuit(_)
FirstCircuit(addrs) ==
    IF addrs = <<>> THEN ""
    ELSE IF IsCircuit(Head(addrs)) THEN Head(addrs)
    ELSE FirstCircuit(Tail(addrs))

\* Mutant: the fallback hint is printed whatever was printed before.
FallbackDueAlways(printed) == TRUE

\* The condition of the fallback hint after the loop.
FallbackDue(printed) == ~printed

\* The loop condition: time.Now().Before(deadline) && !printed.
WaitCheck ==
    /\ relayPoll.pc = "check"
    /\ relayPoll' = [relayPoll EXCEPT !.pc =
                        IF relayPoll.now < relayPoll.deadline /\ ~relayPoll.printed
                        THEN "scan" ELSE "final"]
    /\ UNCHANGED <<ensVars, mainVars, netVars, frame, relayCall, probe>>

\* One poll: h.Addrs() is read and searched; a relay-derived address is
\* printed, or the sleep is next.
WaitScan ==
    /\ relayPoll.pc = "scan"
    /\ LET found == FirstCircuit(relayPoll.addrs)
       IN  relayPoll' = [relayPoll EXCEPT
                           !.polled = Append(@, relayPoll.addrs),
                           !.printed = (found # ""),
                           !.out = IF found # "" THEN Append(@, [tag |-> "relay", addr |-> found])
                                   ELSE @,
                           !.pc = IF found # "" THEN "check" ELSE "sleep"]
    /\ UNCHANGED <<ensVars, mainVars, netVars, frame, relayCall, probe>>

\* time.Sleep(750 * time.Millisecond) returns: at least one interval has
\* passed.
WaitSleep ==
    /\ relayPoll.pc = "sleep"
    /\ \E d \in {1, 2} :
        relayPoll' = [relayPoll EXCEPT !.now = @ + d, !.pc = "check"]
    /\ UNCHANGED <<ensVars, mainVars, netVars, frame, relayCall, probe>>

\* After the loop: the fallback hint, and the return.
WaitFinal ==
    /\ relayPoll.pc = "final"
    /\ relayPoll' = [relayPoll EXCEPT
                        !.out = IF FallbackDue(relayPoll.printed)
                                THEN Append(@, [tag |-> "no relay", addr |-> ""]) ELSE @,
                        !.pc = "done"]
    /\ UNCHANGED <<ensVars, mainVars, netVars, frame, relayCall, probe>>

\* The substrate changes the address set of the node (a relay reservation
\* is made or lost, an interface comes or goes).
AddrsChange ==
    /\ relayPoll.pc \notin {"idle", "done"}
    /\ \E l \in AddrLists \ {relayPoll.addrs} :
        relayPoll' = [relayPoll EXCEPT !.addrs = l]
    /\ UNCHANGED <<ensVars, mainVars, netVars, frame, relayCall, probe>>

\* The steps of waitForRelayAndPrint itself.
WaitProgress == WaitCheck \/ WaitScan \/ WaitSleep \/ WaitFinal

\* No process is modelled beyond the call: waitForRelayAndPrint(h, timeout)
\* has set the deadline.
InitWait ==
    /\ inp = [n \in Nodes |-> NoProc]
    /\ files = [p \in Nodes |-> NoFile]
    /\ keyPath = [n \in Nodes |-> n]
    /\ InitRest
    /\ frame = NoFrame
    /\ relayCall = NoRelayCall
    /\ probe = NoProbe
    /\ relayPoll \in {[pc |-> "check", now |-> 0, deadline |-> MaxTicks, addrs |-> l,
                        printed |-> FALSE, out |-> <<>>, polled |-> <<>>] :
                        l \in AddrLists}

NextWait == WaitCheck \/ WaitScan \/ WaitSleep \/ WaitFinal \/ AddrsChange

\* The calling goroutine keeps running: a step of the function that can be
\* taken is taken.
SpecWait == InitWait /\ [][NextWait]_vars /\ WF_vars(WaitProgress)

\* ------------------------------------------------------------------ claims

\* An item with this tag was printed on the console of n.
HasTag(n, tag) == \E i \in 1..Len(out[n]) : out[n][i].tag = tag

\* The message loop of n was entered (the receiver goroutine was started).
LoopEntered(n) == rpc[n] # "off"

ExitLine == <<"/", "e", "x", "i", "t">>

HelpLine == <<"/", "h", "e", "l", "p">>

\* C1: no receiver ever renders a received message whose origin is the
\* node's own identity, whichever peer it arrived from.
C1_SelfOriginNeverRendered ==
    \A n \in Nodes : \A r \in rendered[n] : r.from # hID[n]

\* C2: a process that gets SIGINT or SIGTERM after its message loop has
\* started has printed the shutdown notice and exited with status 0.
C2_SignalShutsDownCleanly ==
    \A n \in Nodes :
        sigSeen[n] \in {"loop", "exiting", "sigwait"} =>
            /\ HasTag(n, "shutting down cleanly")
            /\ exitCode[n] = ExitSuccess

\* C3: once the receiver has returned on a receive error of a closed
\* subscription, the input loop reads no further line and publishes nothing.
C3_NoInputAfterReceiveError ==
    [][\A n \in Nodes :
          rpc[n] = "closed" => typed'[n] = typed[n] /\ pubLog'[n] = pubLog[n]]_vars

\* C4: a joiner is in the message loop only if its target address was
\* non-empty and well-formed and the connect to it succeeded.
C4_JoinerLoopOnlyAfterConnect ==
    \A n \in Nodes :
        inp[n].mode = "join" /\ LoopEntered(n) =>
            /\ inp[n].addr.ma = "ok"
            /\ inp[n].addr.id # NoKey
            /\ connectCalls[n] = 1
            /\ HasTag(n, "connected")

\* The target address of joiner n embeds the identity of n.
TargetsSelf(n) ==
    /\ inp[n].mode = "join"
    /\ inp[n].addr.ma = "ok"
    /\ hID[n] # NoKey
    /\ inp[n].addr.id = hID[n]

\* C5: a joiner whose target address embeds its own identity never calls
\* connect, never enters the message loop, and once past the joiner branch
\* has reported "already hosting" and exited.
C5_SelfConnectGuard ==
    \A n \in Nodes :
        TargetsSelf(n) =>
            /\ connectCalls[n] = 0
            /\ ~LoopEntered(n)
            /\ conns[n] = {}
            /\ pc[n] \in {"role", "exited"}
            /\ pc[n] = "exited" => HasTag(n, "already hosting") /\ exitCode[n] = ExitSuccess

C5_Witness ==
    \E n \in Nodes : TargetsSelf(n) /\ pc[n] = "exited" /\ HasTag(n, "already hosting")

\* The frames the typed lines call for: none for a blank line, /help or
\* /exit, one frame [name]:line for any other line.
RECURSIVE ExpectedFrames(_, _)
ExpectedFrames(name, lines) ==
    IF lines = <<>> THEN <<>>
    ELSE LET l == TrimSpace(Head(lines))
         IN  (IF l \in {<<>>, HelpLine, ExitLine} THEN <<>>
              ELSE << <<"[">> \o name \o <<"]", ":">> \o l >>)
             \o ExpectedFrames(name, Tail(lines))

\* C6: the publish attempts of a node are exactly one attempt of the frame
\* [displayName]:line for each typed line that is neither blank nor /help nor
\* /exit, in order, and no attempt for the other lines.
C6_CommandDispatch ==
    \A n \in Nodes :
        [i \in 1..Len(pubLog[n]) |-> pubLog[n][i].data] = ExpectedFrames(inp[n].name, typed[n])

\* A command and a padded chat line were typed: one frame, of the trimmed line.
C6_Witness ==
    \E n \in Nodes :
        /\ Len(typed[n]) = 2
        /\ Len(pubLog[n]) = 1
        /\ typed[n][1] = HelpLine
        /\ typed[n][2] = <<"h", "i", Space>>
        /\ pubLog[n][1].data = <<"[", "A", "]", ":", "h", "i">>

\* A publish attempt of n has just failed.
PublishFailedStep(n) ==
    /\ Len(pubLog'[n]) = Len(pubLog[n]) + 1
    /\ ~pubLog'[n][Len(pubLog'[n])].ok

\* C7: a failed publish is reported and leaves the node in the message loop,
\* not exited, ready to read the next line.
C7_PublishFailureKeepsSession ==
    [][\A n \in Nodes :
          PublishFailedStep(n) =>
              /\ pc'[n] = "loop"
              /\ exitCode'[n] = NotExited
              /\ Len(out'[n]) = Len(out[n]) + 2
              /\ out'[n][Len(out[n]) + 1].tag = "publish error"]_vars

\* A later line was read and published after a failed publish.
C7_Witness ==
    \E n \in Nodes :
        /\ Len(pubLog[n]) = 2
        /\ ~pubLog[n][1].ok
        /\ pubLog[n][2].ok
        /\ pc[n] = "loop"

\* The exit command was typed at n.
ExitTyped(n) == \E i \in 1..Len(typed[n]) : TrimSpace(typed[n][i]) = ExitLine

\* C8: the exit command cancels the context before the process ends; the
\* process then ends with status 0 without waiting for the receiver; and
\* after the command nothing is read or published.
C8_ExitCommand ==
    [][\A n \in Nodes :
          /\ pc[n] = "exiting" => ctxCancelled[n] /\ ENABLED OsExit(n)
          /\ (pc[n] = "exiting" /\ pc'[n] = "exited" /\ sigSeen'[n] = "") =>
                exitCode'[n] = ExitSuccess /\ ctxCancelled'[n]
          /\ ExitTyped(n) => typed'[n] = typed[n] /\ pubLog'[n] = pubLog[n]
          /\ (~ExitTyped(n) /\ ExitTyped(n)') =>
                pc'[n] = "exiting" /\ ctxCancelled'[n] /\ pubLog'[n] = pubLog[n]]_vars

\* The process has ended on /exit while its receiver was still waiting.
C8_Witness ==
    \E n \in Nodes :
        /\ ExitTyped(n)
        /\ pc[n] = "exited"
        /\ exitCode[n] = ExitSuccess
        /\ rpc[n] = "wait"
        /\ pubLog[n] # <<>>

\* The startup of n has failed: the identity, the relay list, or a substrate
\* call.
StartupFailed(n) ==
    /\ pc[n] \notin {"off", "menu", "identity"}
    /\ \/ ~eres[n].ok
       \/ (inp[n].csv # <<>> /\ parseRelayInfos(inp[n].csv).err # "")
       \/ subErr[n] # ""

\* C9: a process whose identity setup, relay list parsing, node
\* construction, topic join or subscribe failed has printed a diagnostic and
\* exited with a non-zero status, and never started its message loop.
C9_StartupGating ==
    \A n \in Nodes :
        StartupFailed(n) =>
            /\ pc[n] = "exited"
            /\ exitCode[n] \notin {NotExited, ExitSuccess}
            /\ out[n] # <<>> /\ out[n][Len(out[n])].tag = "fatal"
            /\ ~LoopEntered(n)
            /\ typed[n] = <<>> /\ pubLog[n] = <<>> /\ connectCalls[n] = 0

C9_Witness ==
    \E n \in Nodes : StartupFailed(n) /\ subErr[n] = "Subscribe" /\ exitCode[n] = ExitFatal

\* No two Ensure calls overlapped: every call began after all calls before it
\* had returned.
SequentialCalls ==
    /\ \A j \in 1..Len(elog) : elog[j].start = j - 1
    /\ \A n \in Nodes : epc[n] # "idle" => ecalls[n].start = Len(elog)
    /\ Cardinality({n \in Nodes : epc[n] # "idle"}) <= 1

\* Call i found no file, wrote the key file and returned its key.
CreatedKey(i) == ~elog[i].existed /\ elog[i].res.ok /\ elog[i].wrote

\* C10: in a sequence of sequential Ensure calls on one path, after a call
\* that created the key file every later call returns the identity
\* deserialized from that file, equal to the first one, and writes nothing;
\* the file is written at most once.
C10_EnsureIdempotent ==
    SequentialCalls =>
        /\ fsWrites["A"] <= 1
        /\ \A i \in 1..Len(elog) : \A j \in (i + 1)..Len(elog) :
              CreatedKey(i) =>
                  /\ ~elog[j].wrote
                  /\ elog[j].res.ok => elog[j].res.key = elog[i].res.key
                  /\ ~elog[j].fault => elog[j].res.ok
                  /\ files["A"] = FileOf(MarshalPrivateKey(elog[i].res.key))
                  /\ UnmarshalPrivateKey(files["A"].data) = elog[i].res.key

C10_Witness ==
    /\ SequentialCalls
    /\ Len(elog) >= 2
    /\ CreatedKey(1)
    /\ elog[2].res.ok
    /\ elog[2].res.key = elog[1].res.key
    /\ fsWrites["A"] = 1

\* The key file of process n exists and cannot be deserialized.
KeyFileCorrupt(n) ==
    /\ files[keyPath[n]].exists
    /\ UnmarshalPrivateKey(files[keyPath[n]].data) = NoKey

\* C11: while the key file at the path exists and cannot be deserialized,
\* Ensure returns an error, generates no key and leaves the file as it is,
\* and the process gets no identity and never passes the identity setup: it
\* ends with the fatal status.
C11_CorruptKeyFileIsFatal ==
    [][\A n \in Nodes :
          (Launched(n) /\ KeyFileCorrupt(n)) =>
              /\ files'[keyPath[n]] = files[keyPath[n]]
              /\ fsWrites'[keyPath[n]] = fsWrites[keyPath[n]]
              /\ genCount'[n] = genCount[n]
              /\ epc'[n] = "ret" => ~eres'[n].ok
              /\ priv'[n] = NoKey /\ hID'[n] = NoKey
              /\ pc'[n] \in {"menu", "identity", "exited"}
              /\ pc'[n] = "exited" => exitCode'[n] = ExitFatal
              /\ ~LoopEntered(n)']_vars

\* A process found a corrupt key file, reported the error and exited.
C11_Witness ==
    \E n \in Nodes :
        /\ KeyFileCorrupt(n)
        /\ files[keyPath[n]] = FileOf(CorruptData)
        /\ eres[n].err = "corrupt"
        /\ genCount[n] = 0
        /\ pc[n] = "exited"
        /\ exitCode[n] = ExitFatal

\* The item printed last on the console of n.
LastOut(n) == out[n][Len(out[n])]

\* The receiver of n has taken the text of the framing run from its queue.
FrameReceived(n) == rpc[n] # "off" /\ frame.sent /\ inbox[n] = <<>>

\* s contains the delimiter "]:".
ContainsDelim(s) == \E i \in 1..(Len(s) - 1) : s[i] = "]" /\ s[i + 1] = ":"

\* C12: a pair (name, body) whose name does not contain "]:", wrapped as
\* [name]:body and parsed by the receiver, is rendered as exactly that name
\* and that body.
C12_FramingRoundTrip ==
    \A n \in Nodes :
        (FrameReceived(n) /\ frame.kind = "pair" /\ ~ContainsDelim(frame.name)) =>
            LastOut(n) = Item("msg", frame.name, frame.body)

\* A name that starts with "[" and ends with "]" and a body that is "]:"
\* came through unchanged.
C12_Witness ==
    /\ FrameReceived("A")
    /\ frame.kind = "pair"
    /\ frame.name = <<"[", "]">>
    /\ frame.body = <<"]", ":">>
    /\ LastOut("A") = Item("msg", frame.name, frame.body)

\* The text has the shape of a frame: it contains "]:" and the segment
\* before the first "]:" starts with "[".
HasFrameShape(t) ==
    \E i \in 2..(Len(t) - 1) :
        /\ t[i] = "]" /\ t[i + 1] = ":"
        /\ \A j \in 1..(i - 1) : ~(t[j] = "]" /\ t[j + 1] = ":")
        /\ t[1] = "["

\* C13: the receiver renders a received text as a framed message only if the
\* text contains "]:" and the segment before the first "]:" starts with "[";
\* any other text is rendered as it is; and after either the receiver is
\* still waiting for the next message and the process is still in its loop.
C13_FramingFallback ==
    \A n \in Nodes :
        FrameReceived(n) =>
            /\ LastOut(n).tag \in {"msg", "raw"}
            /\ LastOut(n).tag = "msg" <=> HasFrameShape(frame.text)
            /\ ~HasFrameShape(frame.text) => LastOut(n) = Item("raw", frame.text, <<>>)
            /\ rpc[n] = "wait"
            /\ pc[n] = "loop"
            /\ exitCode[n] = NotExited

\* A raw text with the delimiter but no opening bracket was rendered as it is.
C13_Witness ==
    /\ FrameReceived("A")
    /\ frame.kind = "raw"
    /\ frame.text = <<"x", "]", ":", "x">>
    /\ LastOut("A") = Item("raw", frame.text, <<>>)
    /\ rpc["A"] = "wait"

\* The positions that bound the comma-separated segments of csv.
SegmentBounds(csv) == {0, Len(csv) + 1} \cup {i \in 1..Len(csv) : csv[i] = ","}

\* The k-th smallest element of a set of numbers.
KthOf(B, k) == CHOOSE b \in B : Cardinality({c \in B : c < b}) = k - 1

\* s without its leading and trailing blanks.
Stripped(s) ==
    LET solid == {i \in 1..Len(s) : s[i] # Space}
    IN  IF solid = {} THEN <<>>
        ELSE SubSeq(s, CHOOSE i \in solid : \A j \in solid : i <= j,
                       CHOOSE i \in solid : \A j \in solid : i >= j)

\* The entries of csv: its segments between commas, stripped, in order.
Segments(csv) ==
    [k \in 1..(Cardinality(SegmentBounds(csv)) - 1) |->
        Stripped(SubSeq(csv, KthOf(SegmentBounds(csv), k) + 1,
                             KthOf(SegmentBounds(csv), k + 1) - 1))]

IsEntry(e) == e # <<>>

\* The entry is a relay address: a multiaddr with a peer identity.
ParseableEntry(e) == e \in {<<"g">>, <<"h">>}

\* C14: parseRelayInfos returns no error and no entry for a blank value;
\* otherwise, with every non-empty entry parseable, it returns those entries
\* in input order and no error; and with an unparseable entry anywhere it
\* returns an error that names the first such entry, and no list.
C14_RelayListAllOrNothing ==
    relayCall.pc = "ret" =>
        LET csv == relayCall.csv
            res == relayCall.res
            kept == SelectSeq(Segments(csv), IsEntry)
            bad == {i \in 1..Len(kept) : ~ParseableEntry(kept[i])}
        IN  /\ (\A i \in 1..Len(csv) : csv[i] = Space) =>
                    res.err = "" /\ res.infos = <<>>
            /\ bad = {} => res.err = "" /\ res.infos = kept
            /\ bad # {} =>
                    /\ res.err # ""
                    /\ res.entry = kept[CHOOSE i \in bad : \A j \in bad : i <= j]
                    /\ res.infos = <<>>

\* Two relays around an empty segment came back in input order.
C14_Witness ==
    /\ relayCall.pc = "ret"
    /\ relayCall.csv = <<"h", ",", ",", "g">>
    /\ relayCall.res = ParseResult("", <<>>, << <<"h">>, <<"g">> >>)

\* C15: a host waits for a relay address only when relay-assisted
\* connectivity was enabled for the node, that is when the parsed relay list
\* is not empty.
C15_HostWaitsOnlyWithRelays ==
    \A n \in Nodes :
        (inp[n].mode = "host" /\ (pc[n] = "relaywait" \/ HasTag(n, "relay") \/ HasTag(n, "no relay")))
            => autoRelay[n]

\* The chat lines typed at m, trimmed.
ChatLines(m) ==
    {TrimSpace(typed[m][i]) : i \in 1..Len(typed[m])} \ {<<>>, HelpLine, ExitLine}

\* m has just published a chat line.
PublishStep(m) ==
    /\ Len(pubLog'[m]) = Len(pubLog[m]) + 1
    /\ pubLog'[m][Len(pubLog'[m])].ok

\* The receiver of n has just taken a message of origin m from its queue.
ReceiveStep(n, m) ==
    /\ inbox[n] # <<>>
    /\ inbox'[n] = Tail(inbox[n])
    /\ Head(inbox[n]).from = hID[m]

\* C16: with A hosting and B joined to A, a line published by one node
\* reaches the subscription of the other, whose receiver renders it as the
\* sender's display name and the line; and the exit command ends the process
\* of the node that issued it, with status 0, and leaves the other node where
\* it is: a node in its message loop stays there.
C16_EndToEnd ==
    [][~Solo =>
        \A n \in Nodes : \A m \in Nodes \ {n} :
            /\ (PublishStep(m) /\ n \in conns[m]) =>
                    /\ Len(inbox'[n]) = Len(inbox[n]) + 1
                    /\ inbox'[n][Len(inbox'[n])].from = hID[m]
                    /\ inbox'[n][Len(inbox'[n])].data =
                            pubLog'[m][Len(pubLog'[m])].data
            /\ ReceiveStep(n, m) =>
                    \E line \in ChatLines(m) :
                        /\ Head(inbox[n]).data = <<"[">> \o inp[m].name \o <<"]", ":">> \o line
                        /\ out'[n] = Append(out[n], Item("msg", inp[m].name, line))
            /\ (pc[m] = "exiting" /\ pc'[m] = "exited") =>
                    /\ exitCode'[m] = ExitSuccess
                    /\ pc'[n] = pc[n] /\ exitCode'[n] = exitCode[n] /\ rpc'[n] = rpc[n]
            /\ (ExitTyped(m) /\ ~ExitTyped(n)' /\ pc[n] = "loop") =>
                    pc'[n] = "loop" /\ exitCode'[n] = NotExited]_vars

\* B sent a line that A rendered as "B: hi", then B left with /exit and
\* status 0 while A is still in its message loop.
C16_Witness ==
    /\ ~Solo
    /\ typed["B"] = << <<"h", "i">>, ExitLine >>
    /\ pc["B"] = "exited" /\ exitCode["B"] = ExitSuccess
    /\ HasTag("A", "msg")
    /\ LastOut("A") = Item("msg", <<"B">>, <<"h", "i">>)
    /\ pc["A"] = "loop" /\ exitCode["A"] = NotExited

\* The address has a shape the prober is to recognize: numeric IP over TCP or
\* DNS name over TCP.
RecognizedShape(a) == a.shape \in {"ip4", "dns"}

\* The target has an address of a recognized shape whose endpoint accepts a
\* connection.
HasReachableAddr ==
    \E k \in 1..Len(probe.addrs) :
        RecognizedShape(probe.addrs[k]) /\ probe.addrs[k].hp \in probe.up

\* C17: the prober returns true exactly when some address of the target has
\* a recognized shape and its endpoint accepts a connection.
C17_ProberFindsReachable ==
    probe.pc = "done" => (probe.result <=> HasReachableAddr)

\* Dials the probe made for the k-th address of the target.
DialsOf(k) == Cardinality({j \in 1..Len(probe.dials) : probe.dials[j].addr = k})

PollSaw(i) == \E k \in 1..Len(relayPoll.polled[i]) : IsCircuit(relayPoll.polled[i][k])

\* The relay-derived address that stands first in the list poll i observed.
FirstSeenAt(i) ==
    LET l == relayPoll.polled[i]
        ks == {k \in 1..Len(l) : IsCircuit(l[k])}
    IN  l[CHOOSE k \in ks : \A j \in ks : k <= j]

\* What the returned relay wait has printed is right: one item; it is the
\* first relay-derived address of the first poll that observed one, or, when
\* no poll observed one, the fallback hint.
RelayWaitPrintedRight ==
    LET saw == {i \in 1..Len(relayPoll.polled) : PollSaw(i)}
    IN  /\ Len(relayPoll.out) = 1
        /\ relayPoll.now <= relayPoll.deadline + 1
        /\ Len(relayPoll.polled) <= relayPoll.deadline
        /\ IF saw = {}
           THEN relayPoll.out[1] = [tag |-> "no relay", addr |-> ""]
           ELSE relayPoll.out[1] =
                    [tag |-> "relay",
                     addr |-> FirstSeenAt(CHOOSE i \in saw : \A j \in saw : i <= j)]

\* C19: the relay wait returns, whatever the address set does meanwhile; it
\* never prints more than one item; and when it has returned it has printed
\* exactly one: the first relay-derived address a poll observed, or the
\* fallback hint, the latter only if no poll observed a relay-derived address.
C19_RelayWaitTerminates ==
    /\ <>(relayPoll.pc = "done")
    /\ [](Len(relayPoll.out) <= 1)
    /\ [](relayPoll.pc = "done" => RelayWaitPrintedRight)

\* The wait returned with the fallback hint after polls that saw no relay
\* address while the address set changed.
C19_Witness ==
    /\ relayPoll.pc = "done"
    /\ Len(relayPoll.polled) >= 2
    /\ relayPoll.polled[1] # relayPoll.polled[2]
    /\ relayPoll.out = <<[tag |-> "no relay", addr |-> ""]>>
    /\ relayPoll.addrs # <<>>
    /\ IsCircuit(relayPoll.addrs[1])

\* Calls i and j were made by two processes, both when the path did not
\* exist, and both returned a key.
ConcurrentFirstUse(i, j) ==
    /\ elog[i].proc # elog[j].proc
    /\ ~elog[i].existed /\ ~elog[j].existed
    /\ elog[i].res.ok /\ elog[j].res.ok

\* C20: two processes that call Ensure on the same path while it does not
\* exist get the same identity, and it is the one the file holds afterwards.
C20_OneKeyUnderConcurrentFirstUse ==
    \A i \in 1..Len(elog) : \A j \in 1..Len(elog) :
        ConcurrentFirstUse(i, j) =>
            /\ elog[i].res.key = elog[j].res.key
            /\ UnmarshalPrivateKey(files["A"].data) = elog[i].res.key

====
